---- MODULE Spec2Model ----
(***************************************************************************)
(* Model of termion's Windows raw-mode backend (src/src/raw_windows.rs).   *)
(*                                                                         *)
(* The console keeps one mode word (a DWORD of flag bits) per standard     *)
(* endpoint.  into_raw_mode reads both words, writes the raw-mode words    *)
(* and returns a RawTerminal that remembers the words it read; dropping    *)
(* the RawTerminal writes the remembered words back.  Every kernel32 call  *)
(* can fail; which calls fail is an input of each action (env).            *)
(***************************************************************************)
EXTENDS Integers, Sequences, FiniteSets, TLC

(* ---------------------------------------------------------------- bounds *)
\* sessions (RawTerminal values) created over a behaviour
MaxSessions == 2
\* write/flush requests issued over a behaviour, all sessions together
MaxSinkOps == 2

(* ------------------------------------------------------------- constants *)
ENABLE_VIRTUAL_TERMINAL_PROCESSING == 4
DISABLE_NEWLINE_AUTO_RETURN == 8
ENABLE_VIRTUAL_TERMINAL_INPUT == 512
\* winapi::wincon::* (imported at raw_windows.rs:29)
ENABLE_PROCESSED_OUTPUT == 1
ENABLE_PROCESSED_INPUT == 1
ENABLE_LINE_INPUT == 2
ENABLE_ECHO_INPUT == 4
ENABLE_WINDOW_INPUT == 8

STD_OUTPUT_HANDLE == "out"
STD_INPUT_HANDLE == "in"
Endpoints == {STD_OUTPUT_HANDLE, STD_INPUT_HANDLE}

(* ------------------------------------------------- DWORD bit arithmetic *)
RECURSIVE BitOr(_, _)
\* a | b
BitOr(a, b) ==
    IF a = 0 THEN b
    ELSE IF b = 0 THEN a
    ELSE (IF a % 2 = 1 \/ b % 2 = 1 THEN 1 ELSE 0) + 2 * BitOr(a \div 2, b \div 2)

RECURSIVE BitAndNot(_, _)
\* a & !m
BitAndNot(a, m) ==
    IF a = 0 THEN 0
    ELSE (IF a % 2 = 1 /\ m % 2 = 0 THEN 1 ELSE 0) + 2 * BitAndNot(a \div 2, m \div 2)

RECURSIVE SumSet(_)
SumSet(S) == IF S = {} THEN 0 ELSE LET x == CHOOSE y \in S : TRUE IN x + SumSet(S \ {x})

\* the mode words the console may hold before the program touches it: every
\* combination of the bits the output transform names and of one it does not
\* (2, ENABLE_WRAP_AT_EOL_OUTPUT); every combination of the bits the input
\* transform names and of one it does not (16, ENABLE_MOUSE_INPUT)
OutputModes ==
    { SumSet(B) : B \in SUBSET {ENABLE_PROCESSED_OUTPUT, 2,
                                ENABLE_VIRTUAL_TERMINAL_PROCESSING,
                                DISABLE_NEWLINE_AUTO_RETURN} }
InputModes ==
    { SumSet(B) : B \in SUBSET {ENABLE_PROCESSED_INPUT, ENABLE_LINE_INPUT,
                                ENABLE_ECHO_INPUT, ENABLE_WINDOW_INPUT, 16,
                                ENABLE_VIRTUAL_TERMINAL_INPUT} }

\* the mode words the program finds when it starts: a console with echo, line
\* and window input on and no output flag, and the words a fresh Windows
\* console has (output 0x3, input 0x1F7)
StartModes ==
    { <<0, 14>>, <<3, 503>> }

(* ------------------------------------------------------------------ state *)
VARIABLES
    console_mode,   \* [Endpoints -> DWORD]: the console's mode word per endpoint
    sessions,       \* [1..MaxSessions -> RawTerminal record]
    last,           \* observation of the last call: what it was given, what it
                    \* called in the backend, what it returned
    buffer_size     \* <<X, Y>>: dwSize of the console screen buffer

vars == <<console_mode, sessions, last, buffer_size>>

SessionIds == 1..MaxSessions

\* the kernel32 calls of this module; env[<<fn, endpoint>>] says whether the
\* call succeeds when (if) the code makes it
Primitives == {"GetStdHandle", "GetConsoleMode", "SetConsoleMode"} \X Endpoints
\* the backend answers a call can meet.  into_raw_mode returns at the first
\* failed call, so one failure is all it can meet; drop gives up an endpoint
\* at its first failed call, so it can meet one failure per endpoint, and it
\* never calls GetConsoleMode
Fails(env) == { p \in Primitives : ~env[p] }
EntryEnvs == { env \in [Primitives -> BOOLEAN] : Cardinality(Fails(env)) <= 1 }
DropEnvs ==
    { env \in [Primitives -> BOOLEAN] :
        /\ \A p \in Fails(env) : p[1] # "GetConsoleMode"
        /\ \A h \in Endpoints : Cardinality({ p \in Fails(env) : p[2] = h }) <= 1 }

\* a backend: the mode words and the log of the calls made on it so far
Call(fn, h, ok, arg) == [fn |-> fn, h |-> h, ok |-> ok, arg |-> arg]

(* --------------------------------------------------------- kernel32 layer *)
\* fn get_std_handle(handle_type) -> io::Result<HANDLE>
get_std_handle(env, b, handle_type) ==
    LET ok == env[<<"GetStdHandle", handle_type>>] IN
    [ok |-> ok, val |-> handle_type,
     b |-> [b EXCEPT !.calls = Append(@, Call("GetStdHandle", handle_type, ok, 0))]]

\* fn get_console_mode(handle) -> io::Result<DWORD>
get_console_mode(env, b, handle) ==
    LET ok == env[<<"GetConsoleMode", handle>>] IN
    [ok |-> ok, val |-> IF ok THEN b.mode[handle] ELSE 0,
     b |-> [b EXCEPT !.calls = Append(@, Call("GetConsoleMode", handle, ok, 0))]]

\* fn set_console_mode(handle, console_mode) -> io::Result<()>
\* a rejected SetConsoleMode leaves the endpoint's word as it was
set_console_mode(env, b, handle, mode) ==
    LET ok == env[<<"SetConsoleMode", handle>>] IN
    [ok |-> ok, val |-> 0,
     b |-> [b EXCEPT !.calls = Append(@, Call("SetConsoleMode", handle, ok, mode)),
                     !.mode[handle] = IF ok THEN mode ELSE @]]

Err(b) == [ok |-> FALSE, val |-> 0, b |-> b]
Ok(v, b) == [ok |-> TRUE, val |-> v, b |-> b]

(* ------------------------------------------------------ raw-mode transforms *)
\* mutant: ENABLE_PROCESSED_OUTPUT left out of the output word
new_output_mode_no_processed(mode) ==
    BitOr(BitOr(mode, ENABLE_VIRTUAL_TERMINAL_PROCESSING), DISABLE_NEWLINE_AUTO_RETURN)

\* mutant: the flags added with + where the code joins them with |
new_output_mode_adds(mode) ==
    mode + ENABLE_VIRTUAL_TERMINAL_PROCESSING + DISABLE_NEWLINE_AUTO_RETURN
         + ENABLE_PROCESSED_OUTPUT

\* console_mode | ENABLE_VIRTUAL_TERMINAL_PROCESSING | DISABLE_NEWLINE_AUTO_RETURN
\*              | ENABLE_PROCESSED_OUTPUT
new_output_mode(mode) ==
    BitOr(BitOr(BitOr(mode, ENABLE_VIRTUAL_TERMINAL_PROCESSING),
                DISABLE_NEWLINE_AUTO_RETURN),
          ENABLE_PROCESSED_OUTPUT)

\* mutant: ENABLE_ECHO_INPUT left out of the cleared bits
new_input_mode_keeps_echo(mode) ==
    BitOr(BitAndNot(mode, BitOr(ENABLE_LINE_INPUT, ENABLE_PROCESSED_INPUT)),
          BitOr(ENABLE_VIRTUAL_TERMINAL_INPUT, ENABLE_WINDOW_INPUT))

\* (console_mode & !(ECHO | LINE | PROCESSED)) | VT_INPUT | WINDOW_INPUT
new_input_mode(mode) ==
    BitOr(BitAndNot(mode, BitOr(BitOr(ENABLE_ECHO_INPUT, ENABLE_LINE_INPUT),
                                ENABLE_PROCESSED_INPUT)),
          BitOr(ENABLE_VIRTUAL_TERMINAL_INPUT, ENABLE_WINDOW_INPUT))

\* mutant: Ok(new_console_mode) instead of Ok(console_mode)
enable_vt_mode_output_returns_new(env, b) ==
    LET h == get_std_handle(env, b, STD_OUTPUT_HANDLE) IN
    IF ~h.ok THEN Err(h.b) ELSE
    LET g == get_console_mode(env, h.b, h.val) IN
    IF ~g.ok THEN Err(g.b) ELSE
    LET s == set_console_mode(env, g.b, h.val, new_output_mode(g.val)) IN
    IF ~s.ok THEN Err(s.b) ELSE
    Ok(new_output_mode(g.val), s.b)

\* pub fn enable_vt_mode_output() -> io::Result<DWORD>
enable_vt_mode_output(env, b) ==
    LET h == get_std_handle(env, b, STD_OUTPUT_HANDLE) IN
    IF ~h.ok THEN Err(h.b) ELSE
    LET g == get_console_mode(env, h.b, h.val) IN
    IF ~g.ok THEN Err(g.b) ELSE
    LET s == set_console_mode(env, g.b, h.val, new_output_mode(g.val)) IN
    IF ~s.ok THEN Err(s.b) ELSE
    Ok(g.val, s.b)

\* mutant: Ok(new_console_mode) instead of Ok(console_mode)
enable_vt_mode_input_returns_new(env, b) ==
    LET h == get_std_handle(env, b, STD_INPUT_HANDLE) IN
    IF ~h.ok THEN Err(h.b) ELSE
    LET g == get_console_mode(env, h.b, h.val) IN
    IF ~g.ok THEN Err(g.b) ELSE
    LET s == set_console_mode(env, g.b, h.val, new_input_mode(g.val)) IN
    IF ~s.ok THEN Err(s.b) ELSE
    Ok(new_input_mode(g.val), s.b)

\* pub fn enable_vt_mode_input() -> io::Result<DWORD>
enable_vt_mode_input(env, b) ==
    LET h == get_std_handle(env, b, STD_INPUT_HANDLE) IN
    IF ~h.ok THEN Err(h.b) ELSE
    LET g == get_console_mode(env, h.b, h.val) IN
    IF ~g.ok THEN Err(g.b) ELSE
    LET s == set_console_mode(env, g.b, h.val, new_input_mode(g.val)) IN
    IF ~s.ok THEN Err(s.b) ELSE
    Ok(g.val, s.b)

\* mutant: the output side's error is not returned before the input side runs
into_raw_mode_no_try(env, b) ==
    LET o == enable_vt_mode_output(env, b)
        i == enable_vt_mode_input(env, o.b)
    IN IF o.ok /\ i.ok THEN [ok |-> TRUE, val |-> <<o.val, i.val>>, b |-> i.b]
       ELSE [ok |-> FALSE, val |-> <<0, 0>>, b |-> i.b]

\* fn into_raw_mode(self) -> io::Result<RawTerminal<W>>
\* val is <<output_prev, input_prev>> on success
into_raw_mode(env, b) ==
    LET o == enable_vt_mode_output(env, b) IN
    IF ~o.ok THEN [ok |-> FALSE, val |-> <<0, 0>>, b |-> o.b] ELSE
    LET i == enable_vt_mode_input(env, o.b) IN
    IF ~i.ok THEN [ok |-> FALSE, val |-> <<0, 0>>, b |-> i.b] ELSE
    [ok |-> TRUE, val |-> <<o.val, i.val>>, b |-> i.b]

\* mutant: get_std_handle(..).unwrap() in place of the if let
restore_endpoint_unwraps_handle(env, b, handle_type, prev) ==
    LET h == get_std_handle(env, b, handle_type) IN
    IF ~h.ok THEN [panicked |-> TRUE, b |-> h.b] ELSE
    LET s == set_console_mode(env, h.b, h.val, prev) IN
    [panicked |-> ~s.ok, b |-> s.b]

\* one endpoint's block of drop: if let Ok(handle) = get_std_handle(..) {
\*     set_console_mode(handle, prev).unwrap(); }
restore_endpoint(env, b, handle_type, prev) ==
    LET h == get_std_handle(env, b, handle_type) IN
    IF ~h.ok THEN [panicked |-> FALSE, b |-> h.b] ELSE
    LET s == set_console_mode(env, h.b, h.val, prev) IN
    [panicked |-> ~s.ok, b |-> s.b]

\* mutant: the input endpoint's block left out of drop
drop_output_only(env, b, self) ==
    restore_endpoint(env, b, STD_OUTPUT_HANDLE, self.output_prev)

\* fn drop(&mut self): the unwrap of a rejected SetConsoleMode panics and the
\* rest of drop does not run
drop(env, b, self) ==
    LET o == restore_endpoint(env, b, STD_OUTPUT_HANDLE, self.output_prev) IN
    IF o.panicked THEN o ELSE
    restore_endpoint(env, o.b, STD_INPUT_HANDLE, self.input_prev)

(* ------------------------------------------------------------- size query *)
\* the calls of terminal_size, both on the output handle
SizePrimitives == {"GetStdHandle", "GetConsoleScreenBufferInfo"} \X {STD_OUTPUT_HANDLE}
\* terminal_size returns at its first failed call
SizeEnvs ==
    { env \in [SizePrimitives -> BOOLEAN] :
        Cardinality({ p \in SizePrimitives : ~env[p] }) <= 1 }

\* the screen buffers a console can report: 80 x 24, and 120 columns with
\* the 9001 lines of scroll-back of a Windows console
BufferSizes == { <<80, 24>>, <<120, 9001>> }

\* SHORT as u16
AsU16(x) == x % 65536

\* mutant: a failed geometry query is issued a second time
terminal_size_retries(env, b) ==
    LET okh == env[<<"GetStdHandle", STD_OUTPUT_HANDLE>>]
        b1 == [b EXCEPT !.calls = Append(@, Call("GetStdHandle", STD_OUTPUT_HANDLE, okh, 0))]
    IN IF ~okh THEN Err(b1) ELSE
    LET okq == env[<<"GetConsoleScreenBufferInfo", STD_OUTPUT_HANDLE>>]
        c == Call("GetConsoleScreenBufferInfo", STD_OUTPUT_HANDLE, okq, 0)
        b2 == [b1 EXCEPT !.calls = Append(@, c)]
    IN IF ~okq THEN Err([b2 EXCEPT !.calls = Append(@, c)]) ELSE
    Ok(<<AsU16(b.size[1]), AsU16(b.size[2])>>, b2)

\* mutant: dwSize.Y returned as the columns and dwSize.X as the rows
terminal_size_swapped(env, b) ==
    LET okh == env[<<"GetStdHandle", STD_OUTPUT_HANDLE>>]
        b1 == [b EXCEPT !.calls = Append(@, Call("GetStdHandle", STD_OUTPUT_HANDLE, okh, 0))]
    IN IF ~okh THEN Err(b1) ELSE
    LET okq == env[<<"GetConsoleScreenBufferInfo", STD_OUTPUT_HANDLE>>]
        b2 == [b1 EXCEPT !.calls =
                 Append(@, Call("GetConsoleScreenBufferInfo", STD_OUTPUT_HANDLE, okq, 0))]
    IN IF ~okq THEN Err(b2) ELSE
    Ok(<<AsU16(b.size[2]), AsU16(b.size[1])>>, b2)

\* pub fn terminal_size() -> io::Result<(u16, u16)>
terminal_size(env, b) ==
    LET okh == env[<<"GetStdHandle", STD_OUTPUT_HANDLE>>]
        b1 == [b EXCEPT !.calls = Append(@, Call("GetStdHandle", STD_OUTPUT_HANDLE, okh, 0))]
    IN IF ~okh THEN Err(b1) ELSE
    LET okq == env[<<"GetConsoleScreenBufferInfo", STD_OUTPUT_HANDLE>>]
        b2 == [b1 EXCEPT !.calls =
                 Append(@, Call("GetConsoleScreenBufferInfo", STD_OUTPUT_HANDLE, okq, 0))]
    IN IF ~okq THEN Err(b2) ELSE
    Ok(<<AsU16(b.size[1]), AsU16(b.size[2])>>, b2)

(* ---------------------------------------------------------- the sink (W) *)
\* the buffers handed to write (ESC [, the start of a control sequence)
Bufs == { <<27, 91>> }
\* io::Result<usize> of W::write and io::Result<()> of W::flush: -1 is Err
WriteResults(buf) == {-1, Len(buf)}
FlushResults == {-1, 0}

\* mutant: the buffer is held back and reported as written
write_buffered(self, buf, r) == [self |-> self, ret |-> Len(buf)]

\* self.output.write(buf): the sink receives buf and answers r
write(self, buf, r) ==
    [self |-> [self EXCEPT !.output = Append(@, <<"write", buf>>)], ret |-> r]

\* self.output.flush(): the sink receives the flush and answers r
flush(self, r) ==
    [self |-> [self EXCEPT !.output = Append(@, <<"flush", <<>> >>)], ret |-> r]

\* fn deref(&self) -> &W
deref(self) == self.output

\* fn deref_mut(&mut self) -> &mut W: the caller holds the sink itself and
\* hands it the request req
deref_mut(self, req) == [self EXCEPT !.output = Append(@, req)]

(* ----------------------------------------------------------------- actions *)
NoSession ==
    [status |-> "none", output_prev |-> 0, input_prev |-> 0, output |-> <<>>,
     pre |-> <<0, 0>>, alone |-> TRUE]

\* a dropped RawTerminal: its fields and the sink it owned are gone
Released == [NoSession EXCEPT !.status = "released"]

\* mutant: a released RawTerminal still counts as usable
Active_after_release == { s \in SessionIds : sessions[s].status # "none" }

\* the RawTerminal values the program holds: into_raw_mode takes the sink by
\* value and drop ends the value, so only these can be written to or dropped
Active == { s \in SessionIds : sessions[s].status = "active" }
Created == { s \in SessionIds : sessions[s].status # "none" }

RECURSIVE SinkOps(_)
SinkOps(S) ==
    IF S = {} THEN 0
    ELSE LET s == CHOOSE x \in S : TRUE IN Len(sessions[s].output) + SinkOps(S \ {s})

Observation(op, sid, ok, panicked, calls, arg, ret) ==
    [op |-> op, sid |-> sid, ok |-> ok, panicked |-> panicked,
     pre |-> console_mode, calls |-> calls, arg |-> arg, ret |-> ret,
     self |-> IF op = "drop" THEN sessions[sid] ELSE NoSession]

Backend == [mode |-> console_mode, calls |-> <<>>]

\* every other live session has seen the console touched behind its back
Disturb(ss, sid) ==
    [s \in SessionIds |->
        IF s # sid /\ ss[s].status = "active" THEN [ss[s] EXCEPT !.alone = FALSE]
        ELSE ss[s]]

Init ==
    /\ \E m \in StartModes :
          console_mode = [h \in Endpoints |-> IF h = STD_OUTPUT_HANDLE THEN m[1] ELSE m[2]]
    /\ sessions = [s \in SessionIds |-> NoSession]
    /\ last = [op |-> "start", sid |-> 0, ok |-> TRUE, panicked |-> FALSE,
               pre |-> console_mode, calls |-> <<>>, arg |-> <<>>, ret |-> 0,
               self |-> NoSession]
    /\ buffer_size = <<80, 24>>

\* sink.into_raw_mode(), the backend answering as one of envs
IntoRawModeIn(envs) ==
    \E env \in envs :
      /\ Created # SessionIds
      /\ LET sid == CHOOSE s \in SessionIds :
                       s \notin Created /\ \A t \in SessionIds \ Created : s <= t
             r == into_raw_mode(env, Backend)
         IN /\ console_mode' = r.b.mode
            /\ sessions' =
                 IF r.ok
                 THEN [Disturb(sessions, sid) EXCEPT ![sid] =
                         [status |-> "active", output_prev |-> r.val[1],
                          input_prev |-> r.val[2], output |-> <<>>,
                          pre |-> <<console_mode[STD_OUTPUT_HANDLE],
                                    console_mode[STD_INPUT_HANDLE]>>,
                          alone |-> TRUE]]
                 ELSE Disturb(sessions, 0)
            /\ last' = Observation("into_raw_mode", IF r.ok THEN sid ELSE 0, r.ok,
                                    FALSE, r.b.calls, <<>>, 0)
            /\ UNCHANGED buffer_size

\* sink.into_raw_mode()
IntoRawMode == IntoRawModeIn(EntryEnvs)

\* the RawTerminal goes out of scope, the backend answering as one of envs
DropIn(envs) ==
    \E sid \in Active, env \in envs :
      LET r == drop(env, Backend, sessions[sid])
      IN /\ console_mode' = r.b.mode
         /\ sessions' = [Disturb(sessions, sid) EXCEPT ![sid] = Released]
         /\ last' = Observation("drop", sid, ~r.panicked, r.panicked, r.b.calls, <<>>, 0)
         /\ UNCHANGED buffer_size

\* the RawTerminal goes out of scope
Drop == DropIn(DropEnvs)

\* raw.write(buf)
Write ==
    \E sid \in Active, buf \in Bufs :
      \E r \in WriteResults(buf) :
        /\ SinkOps(SessionIds) < MaxSinkOps
        /\ LET w == write(sessions[sid], buf, r)
           IN /\ sessions' = [sessions EXCEPT ![sid] = w.self]
              /\ last' = Observation("write", sid, w.ret >= 0, FALSE, <<>>, <<buf, r>>, w.ret)
        /\ UNCHANGED <<console_mode, buffer_size>>

\* raw.flush()
Flush ==
    \E sid \in Active, r \in FlushResults :
        /\ SinkOps(SessionIds) < MaxSinkOps
        /\ LET w == flush(sessions[sid], r)
           IN /\ sessions' = [sessions EXCEPT ![sid] = w.self]
              /\ last' = Observation("flush", sid, w.ret >= 0, FALSE, <<>>, << <<>>, r>>, w.ret)
        /\ UNCHANGED <<console_mode, buffer_size>>

\* &*raw
Deref ==
    \E sid \in Active :
        /\ last' = Observation("deref", sid, TRUE, FALSE, <<>>, <<>>, deref(sessions[sid]))
        /\ UNCHANGED <<console_mode, sessions, buffer_size>>

\* (&mut *raw).write(buf) or (&mut *raw).flush()
DerefMut ==
    \E sid \in Active, req \in ({"write"} \X Bufs) \cup {<<"flush", <<>> >>} :
        /\ SinkOps(SessionIds) < MaxSinkOps
        /\ sessions' = [sessions EXCEPT ![sid] = deref_mut(sessions[sid], req)]
        /\ last' = Observation("deref_mut", sid, TRUE, FALSE, <<>>, req, 0)
        /\ UNCHANGED <<console_mode, buffer_size>>

Next == IntoRawMode \/ Drop \/ Write \/ Flush \/ Deref \/ DerefMut

Spec == Init /\ [][Next]_vars

(* ------------------------------------- the transforms called on their own *)
\* enable_vt_mode_output and enable_vt_mode_input are pub: a caller can run
\* either without a RawTerminal.  SpecModes starts from every mode word of
\* OutputModes x InputModes and applies them.
InitModes ==
    /\ console_mode \in [Endpoints -> OutputModes \cup InputModes]
    /\ console_mode[STD_OUTPUT_HANDLE] \in OutputModes
    /\ console_mode[STD_INPUT_HANDLE] \in InputModes
    /\ sessions = [s \in SessionIds |-> NoSession]
    /\ last = [op |-> "start", sid |-> 0, ok |-> TRUE, panicked |-> FALSE,
               pre |-> console_mode, calls |-> <<>>, arg |-> <<>>, ret |-> 0,
               self |-> NoSession]
    /\ buffer_size = <<80, 24>>

EnableVtModeOutput ==
    \E env \in EntryEnvs :
      LET r == enable_vt_mode_output(env, Backend)
      IN /\ last.op = "start"
         /\ console_mode' = r.b.mode
         /\ last' = Observation("enable_vt_mode_output", 0, r.ok, FALSE, r.b.calls, <<>>, r.val)
         /\ UNCHANGED <<sessions, buffer_size>>

EnableVtModeInput ==
    \E env \in EntryEnvs :
      LET r == enable_vt_mode_input(env, Backend)
      IN /\ last.op = "start"
         /\ console_mode' = r.b.mode
         /\ last' = Observation("enable_vt_mode_input", 0, r.ok, FALSE, r.b.calls, <<>>, r.val)
         /\ UNCHANGED <<sessions, buffer_size>>

NextModes == EnableVtModeOutput \/ EnableVtModeInput

SpecModes == InitModes /\ [][NextModes]_vars

(* ----------------------------------------- sessions on a backend that works *)
\* the backend accepts every call
OkEnvs == { env \in [Primitives -> BOOLEAN] : Fails(env) = {} }

\* SpecOverlap starts from every mode word of OutputModes x InputModes and
\* enters and drops sessions with every backend call succeeding
NextOverlap == IntoRawModeIn(OkEnvs) \/ DropIn(OkEnvs)

SpecOverlap == InitModes /\ [][NextOverlap]_vars

(* ---------------------------------------------------------- the size query *)
\* terminal_size()
TerminalSize ==
    \E env \in SizeEnvs :
      LET r == terminal_size(env, [size |-> buffer_size, calls |-> <<>>])
      IN /\ last' = Observation("terminal_size", 0, r.ok, FALSE, r.b.calls, <<>>, r.val)
         /\ UNCHANGED <<console_mode, sessions, buffer_size>>

\* the user resizes the console window or its screen buffer
Resize ==
    /\ buffer_size' \in BufferSizes \ {buffer_size}
    /\ UNCHANGED <<console_mode, sessions, last>>

\* terminal_size does not depend on the sink, so SpecSize runs it beside
\* into_raw_mode and drop only
NextSize == IntoRawMode \/ Drop \/ TerminalSize \/ Resize

SpecSize == Init /\ [][NextSize]_vars

(* ------------------------------------------------------------- properties *)
O == STD_OUTPUT_HANDLE
I == STD_INPUT_HANDLE

\* bit i of the mode word x
Bit(x, i) == (x \div (2 ^ i)) % 2
BitPositions == 0..10

CallsOf(fn, h) ==
    { k \in 1..Len(last.calls) : last.calls[k].fn = fn /\ last.calls[k].h = h }
Made(fn, h) == CallsOf(fn, h) # {}
Accepted(fn, h) == \E k \in CallsOf(fn, h) : last.calls[k].ok
Rejected(fn, h) == \E k \in CallsOf(fn, h) : ~last.calls[k].ok
AllCallsOk == \A k \in 1..Len(last.calls) : last.calls[k].ok
ModePair == <<console_mode[O], console_mode[I]>>
Failed == { k \in 1..Len(last.calls) : ~last.calls[k].ok }

(* C11: no retry and full propagation.  In into_raw_mode and terminal_size
   the first backend call that fails is the last call made and the call
   returns the error; no backend call is made twice on an endpoint; and a
   call whose backend calls all succeeded returns Ok. *)
C11_NoRetryFullPropagation ==
    last.op \in {"into_raw_mode", "terminal_size"} =>
        /\ \A k \in Failed : k = Len(last.calls)
        /\ last.ok <=> Failed = {}
        /\ \A j, k \in 1..Len(last.calls) :
              (last.calls[j].fn = last.calls[k].fn /\ last.calls[j].h = last.calls[k].h)
                => j = k
        /\ Failed # {} => (last.sid = 0 /\ last.ret = 0)

\* a terminal_size whose geometry query failed after the handle resolved
C11_Witness ==
    /\ last.op = "terminal_size" /\ ~last.ok
    /\ Len(last.calls) = 2 /\ Rejected("GetConsoleScreenBufferInfo", O)

(* C12: the geometry query is stateless.  Every successful terminal_size
   returns the columns and rows the console reports at that call, whatever
   earlier calls returned, and the call changes no mode word, no session
   and not the geometry. *)
C12_GeometryStateless ==
    [][(last'.op = "terminal_size" /\ last' # last) =>
          /\ last'.ok => last'.ret = buffer_size
          /\ UNCHANGED <<console_mode, sessions, buffer_size>>]_vars

\* a query answered 120 x 9001 after the buffer was resized from 80 x 24
C12_Witness ==
    /\ last.op = "terminal_size" /\ last.ok
    /\ last.ret = <<120, 9001>> /\ buffer_size = <<120, 9001>>
    /\ Active # {}

(* C1: restoration round trip.  When a RawTerminal that no other call
   disturbed is dropped and every backend call of the drop succeeds, both
   endpoints hold the mode words they held before its into_raw_mode. *)
C1_RestorationRoundTrip ==
    (last.op = "drop" /\ AllCallsOk /\ last.self.alone) => ModePair = last.self.pre

\* a drop that put ENABLE_ECHO_INPUT and the output word 0 back
C1_Witness ==
    /\ last.op = "drop" /\ AllCallsOk /\ last.self.alone
    /\ last.pre[O] = 13 /\ last.pre[I] = 520
    /\ ModePair = <<0, 14>>

(* C2: all-or-nothing entry.  When into_raw_mode has applied the output word
   and the input SetConsoleMode is rejected, the call fails, returns no
   RawTerminal and the output endpoint holds the word it held before. *)
C2_AllOrNothingEntry ==
    (last.op = "into_raw_mode" /\ Accepted("SetConsoleMode", O)
        /\ Rejected("SetConsoleMode", I))
    => (~last.ok /\ last.sid = 0 /\ console_mode[O] = last.pre[O])

(* C3: release never panics, whichever SetConsoleMode is rejected. *)
C3_ReleaseNeverPanics ==
    last.op = "drop" => ~last.panicked

(* C4: independent restore attempts.  A drop attempts the input restore
   whatever became of the output restore, and an accepted input restore
   leaves input_prev in the input endpoint. *)
C4_IndependentRestore ==
    last.op = "drop" =>
        /\ Made("GetStdHandle", I)
        /\ Accepted("SetConsoleMode", I) => console_mode[I] = last.self.input_prev

(* C5: release runs exactly once per session.  The drop of a RawTerminal
   enters the restore of each endpoint exactly once, and a failed
   into_raw_mode is followed by no restore. *)
C5_ReleaseExactlyOnce ==
    /\ last.op = "drop" =>
          \A h \in Endpoints : Cardinality(CallsOf("GetStdHandle", h)) = 1
    /\ (last.op = "into_raw_mode" /\ ~last.ok) => last.sid = 0

(* C6: failure on the input side before the apply.  When the output side
   succeeded and the input GetStdHandle or GetConsoleMode fails,
   into_raw_mode fails, returns no RawTerminal and the output endpoint holds
   the word it held before the call. *)
C6_InputFailureBeforeApply ==
    (last.op = "into_raw_mode" /\ Accepted("SetConsoleMode", O)
        /\ (Rejected("GetStdHandle", I) \/ Rejected("GetConsoleMode", I)))
    => (~last.ok /\ last.sid = 0 /\ console_mode[O] = last.pre[O])

(* C7: failure on the output side.  When the output GetStdHandle,
   GetConsoleMode or SetConsoleMode fails, into_raw_mode fails, returns no
   RawTerminal, leaves the output word as it was and makes no call on the
   input endpoint. *)
C7_OutputFailure ==
    (last.op = "into_raw_mode"
        /\ \E fn \in {"GetStdHandle", "GetConsoleMode", "SetConsoleMode"} : Rejected(fn, O))
    => /\ ~last.ok /\ last.sid = 0
       /\ console_mode = last.pre
       /\ \A k \in 1..Len(last.calls) : last.calls[k].h # I

\* the output SetConsoleMode was rejected
C7_Witness ==
    /\ last.op = "into_raw_mode" /\ Rejected("SetConsoleMode", O)
    /\ Len(last.calls) = 3 /\ console_mode[O] = 3

(* C8: output flag computation.  The word enable_vt_mode_output writes is
   output_prev with bits 0x0004, 0x0008 and ENABLE_PROCESSED_OUTPUT set and
   every other bit as in output_prev, and it returns output_prev. *)
C8_OutputFlagComputation ==
    (last.op = "enable_vt_mode_output" /\ last.ok) =>
        /\ \A i \in BitPositions :
              Bit(console_mode[O], i) =
                IF i \in {0, 2, 3} THEN 1 ELSE Bit(last.pre[O], i)
        /\ \E k \in CallsOf("SetConsoleMode", O) : last.calls[k].arg = console_mode[O]
        /\ last.ret = last.pre[O]
        /\ console_mode[I] = last.pre[I]

\* from ENABLE_WRAP_AT_EOL_OUTPUT alone to all four output bits
C8_Witness ==
    /\ last.op = "enable_vt_mode_output" /\ last.ok
    /\ last.pre[O] = 2 /\ console_mode[O] = 15 /\ last.ret = 2

(* C9: input flag computation.  The word enable_vt_mode_input writes has
   ENABLE_ECHO_INPUT, ENABLE_LINE_INPUT and ENABLE_PROCESSED_INPUT cleared,
   0x0200 and ENABLE_WINDOW_INPUT set and every other bit as in input_prev,
   and it returns input_prev. *)
C9_InputFlagComputation ==
    (last.op = "enable_vt_mode_input" /\ last.ok) =>
        /\ \A i \in BitPositions :
              Bit(console_mode[I], i) =
                IF i \in {0, 1, 2} THEN 0
                ELSE IF i \in {3, 9} THEN 1
                ELSE Bit(last.pre[I], i)
        /\ \E k \in CallsOf("SetConsoleMode", I) : last.calls[k].arg = console_mode[I]
        /\ last.ret = last.pre[I]
        /\ console_mode[O] = last.pre[O]

\* echo, line, processed and mouse input on: only mouse input survives
C9_Witness ==
    /\ last.op = "enable_vt_mode_input" /\ last.ok
    /\ last.pre[I] = 23 /\ console_mode[I] = 536 /\ last.ret = 23

(* C10: verbatim forwarding.  A write or flush on an active RawTerminal
   appends exactly that request to what its sink has received, returns the
   sink's answer, and changes no mode word, no stored previous word and no
   other session. *)
C10_VerbatimForwarding ==
    [][\A sid \in SessionIds :
         (last'.op \in {"write", "flush"} /\ last'.sid = sid) =>
            /\ sessions[sid].status = "active"
            /\ sessions'[sid] =
                 [sessions[sid] EXCEPT !.output = Append(@, <<last'.op, last'.arg[1]>>)]
            /\ last'.ret = last'.arg[2]
            /\ console_mode' = console_mode
            /\ \A t \in SessionIds \ {sid} : sessions'[t] = sessions[t]]_vars

\* a flush that followed a write on the same session, both forwarded in order
C10_Witness ==
    /\ last.op = "flush" /\ last.ret = 0
    /\ sessions[last.sid].output = << <<"write", <<27, 91>> >>, <<"flush", <<>> >> >>

(* C13: the stored previous words are write-once.  A RawTerminal is created
   with the words the console held before its into_raw_mode, and no step
   (write, flush, deref, deref_mut or any other call) changes output_prev or
   input_prev while it is active. *)
C13_PrevWriteOnce ==
    [][\A sid \in SessionIds :
         /\ (sessions[sid].status = "active" /\ sessions'[sid].status = "active") =>
               /\ sessions'[sid].output_prev = sessions[sid].output_prev
               /\ sessions'[sid].input_prev = sessions[sid].input_prev
         /\ (sessions[sid].status = "none" /\ sessions'[sid].status = "active") =>
               /\ sessions'[sid].output_prev = console_mode[O]
               /\ sessions'[sid].input_prev = console_mode[I]]_vars

\* a session that still holds 0x3 and 0x1F7 after two requests through deref_mut
C13_Witness ==
    /\ last.op = "deref_mut" /\ sessions[last.sid].status = "active"
    /\ Len(sessions[last.sid].output) = 2
    /\ sessions[last.sid].output_prev = 3 /\ sessions[last.sid].input_prev = 503
    /\ ModePair = <<15, 1016>>

(* C14: exclusive ownership.  A step hands a request to the sink of at most
   one session, that session is active, and a released session never
   receives anything again. *)
C14_ExclusiveOwnership ==
    [][/\ \A sid \in SessionIds :
            /\ sessions'[sid].output # sessions[sid].output =>
                  /\ sessions[sid].status = "active"
                  /\ \/ sessions'[sid] = Released
                     \/ /\ sessions'[sid].status = "active"
                        /\ Len(sessions'[sid].output) = Len(sessions[sid].output) + 1
                        /\ \A t \in SessionIds \ {sid} :
                              sessions'[t].output = sessions[t].output
            /\ sessions[sid].status = "released" => sessions'[sid] = Released
       /\ (sessions' # sessions /\ last'.op \in {"write", "flush", "deref_mut"}) =>
            sessions[last'.sid].status = "active"]_vars

\* a write on the second session after the first was released
C14_Witness ==
    /\ last.op = "write" /\ last.sid = 2
    /\ sessions[1] = Released
    /\ sessions[2].output = << <<"write", <<27, 91>> >> >>

\* new is old with the raw-mode bits of the output (input) endpoint applied
IsRawOutputOf(new, old) ==
    \A i \in BitPositions : Bit(new, i) = IF i \in {0, 2, 3} THEN 1 ELSE Bit(old, i)
IsRawInputOf(new, old) ==
    \A i \in BitPositions :
        Bit(new, i) = IF i \in {0, 1, 2} THEN 0
                      ELSE IF i \in {3, 9} THEN 1
                      ELSE Bit(old, i)

(* C15: overlapping sessions.  With every backend call succeeding, when two
   sessions were entered without a release in between and both are released,
   each endpoint holds the previous word of the session released last: the
   original words when the first-created session is released last, the
   raw-mode words when it is released first. *)
C15_OverlappingSessions ==
    (last.op = "drop" /\ AllCallsOk /\ Cardinality(Created) = 2 /\ Active = {}
        /\ ~last.self.alone)
    => /\ ModePair = <<last.self.output_prev, last.self.input_prev>>
       /\ last.sid = 1 => ModePair = last.self.pre
       /\ last.sid = 2 => /\ IsRawOutputOf(console_mode[O], last.pre[O])
                          /\ IsRawInputOf(console_mode[I], last.pre[I])

\* the first-created session was released first: the console is left raw
C15_Witness ==
    /\ last.op = "drop" /\ last.sid = 2 /\ Cardinality(Created) = 2 /\ Active = {}
    /\ ~last.self.alone
    /\ last.pre[O] = 2 /\ last.pre[I] = 23
    /\ ModePair = <<15, 536>>

(* C16: release with an unresolvable handle.  When GetStdHandle fails for an
   endpoint during a drop, no SetConsoleMode is issued for that endpoint, its
   word stays, the other endpoint's restore is still attempted, and the drop
   panics only if the other endpoint's SetConsoleMode was rejected. *)
C16_UnresolvableHandle ==
    last.op = "drop" =>
        \A h \in Endpoints :
            Rejected("GetStdHandle", h) =>
                LET other == CHOOSE g \in Endpoints : g # h
                IN /\ ~Made("SetConsoleMode", h)
                   /\ console_mode[h] = last.pre[h]
                   /\ Made("GetStdHandle", other)
                   /\ last.panicked => Rejected("SetConsoleMode", other)

\* the output handle did not resolve and the input word was restored
C16_Witness ==
    /\ last.op = "drop" /\ ~last.panicked
    /\ Rejected("GetStdHandle", O) /\ Accepted("SetConsoleMode", I)
    /\ ModePair = <<13, 14>>

(* C17: the raw-mode transform is idempotent.  An into_raw_mode that finds
   mode words already of the raw form leaves both words as they are; so a
   second session entered while the first is active changes no word. *)
C17_TransformIdempotent ==
    (last.op = "into_raw_mode" /\ last.ok) =>
        /\ (IsRawOutputOf(last.pre[O], last.pre[O]) /\ IsRawInputOf(last.pre[I], last.pre[I]))
              => console_mode = last.pre
        /\ (last.sid = 2 /\ Active = {1, 2}) => console_mode = last.pre

\* the second session entered on a console the first had made raw
C17_Witness ==
    /\ last.op = "into_raw_mode" /\ last.sid = 2 /\ Active = {1, 2}
    /\ sessions[1].output_prev = 2 /\ sessions[1].input_prev = 23
    /\ sessions[2].output_prev = 15 /\ sessions[2].input_prev = 536
    /\ ModePair = <<15, 536>>

====
